---- MODULE Spec2Model ----
(***************************************************************************)
(* Cosmetic Star CRM: the Express handlers of backend/server.js over the   *)
(* tables of backend/schema.sql, and the React pages that call them.       *)
(* Every database statement (one supabase call) is one atomic step of the  *)
(* store; a handler that issues several statements is atomic only in the   *)
(* sequential specification Spec.                                          *)
(***************************************************************************)
EXTENDS Integers, Sequences, FiniteSets

\* ------------------------------------------------------------------ bounds
MaxPatients == 2
MaxBookings == 1
MaxTx == 1
MaxFiles == 2
MaxPayments == 3
MaxPending == 2

\* ------------------------------------------------------------ input domains
NULL == "NULL"
PatientIds == 1..MaxPatients
Emails == {"a@x.uk", "b@x.uk"}
FirstNames == {"Ann"}
LastNames == {"Lee"}
\* `CS-RC-${n}`, n = Math.floor(100000 + Math.random() * 900000)
Receipts == {100000, 999999}
AssessmentData == {"d1"}
Dates == {"2026-01-05"}
TimeSlots == {"09:00 AM"}
ServiceTypes == {"Hair Transplant"}
Connections == {"c1", "c2"}
Browsers == {"b1", "b2"}
\* tabs of one browser, each with its own PatientProvider
Tabs == {"t1", "t2"}
\* SERVICES of the TreatmentPlan page
ServiceIds == {"fue", "prp", "micro", "botox"}
ServiceName(sid) ==
    CASE sid = "fue" -> "FUE Hair Transplant"
      [] sid = "prp" -> "PRP Therapy"
      [] sid = "micro" -> "Scalp Micropigmentation"
      [] sid = "botox" -> "Anti-Wrinkle Treatment"
DefaultPrice(sid) ==
    CASE sid = "fue" -> 2500
      [] sid = "prp" -> 800
      [] sid = "micro" -> 1800
      [] sid = "botox" -> 300
ApprovalThreshold == 1500
\* what is typed into the Cost and Discount number inputs
PriceInputs == {-100, 0, 300, 1500, 2500, 3000}
PlanBody(base, discount, total) ==
    [service_id |-> "fue", service_name |-> "FUE Hair Transplant",
     base_cost |-> base, discount |-> discount, total_to_pay |-> total]

VARIABLES
    patients,         \* rows of table patients
    nextId,           \* uuid_generate_v4(): the next fresh patient id
    medical_intakes,  \* rows of table medical_intakes
    contracts,        \* rows of table contracts
    bookings,         \* rows of table bookings, in created_at order
    treatment_plans,  \* rows of table treatment_plans
    transactions,     \* rows of table transactions, in created_at order
    storage,          \* objects of the buckets 'signatures' and 'proofs'
    resp,             \* the HTTP response of the last request
    inflight,         \* per connection: the request the server is working on
    contractPage,     \* state of the DigitalContract page of one browser
    financialsPage,   \* per browser: state of the Financials page
    planPage,         \* state of the TreatmentPlan page of one browser
    appContent,       \* state of AppContent: the selected patient, the gate
    search,           \* a patient search: its input and its result
    calendarPage,     \* state of the CalendarPage of one browser
    patientContext,   \* per tab: selectedPatient of the PatientProvider
    localStorage      \* the entry 'selectedPatient' of the browser's localStorage

tables == <<patients, nextId, medical_intakes, contracts, bookings,
            treatment_plans, transactions, storage>>
\* what lives outside the database and the storage buckets
clients == <<inflight, contractPage, financialsPage, planPage, appContent, search, calendarPage, patientContext, localStorage>>
vars == <<patients, nextId, medical_intakes, contracts, bookings,
          treatment_plans, transactions, storage, resp, inflight, contractPage,
          financialsPage, planPage, appContent,
          search,
          calendarPage,
          patientContext,
          localStorage>>

\* ------------------------------------------------------------------ helpers
RECURSIVE SumAmounts(_)
SumAmounts(s) == IF s = <<>> THEN 0 ELSE Head(s).amount + SumAmounts(Tail(s))

Reverse(s) == [i \in 1..Len(s) |-> s[Len(s) + 1 - i]]

OfPatient(s, p) == SelectSeq(s, LAMBDA r : r.patient_id = p)
NotOfPatient(s, p) == SelectSeq(s, LAMBDA r : r.patient_id # p)

PatientExists(p) == \E r \in patients : r.id = p
HasContract(p) == \E c \in contracts : c.patient_id = p

\* res.status(status).json(...): the status, and the body's error or message
\* ("none" for a body that is a row or a list)
Response(status, body) == [status |-> status, body |-> body]

\* ------------------------------------------------------- schema constraints
\* mutant: patients.email without its UNIQUE constraint
PatientInsertErrorNoUnique(fn, ln, em) ==
    IF fn = NULL \/ ln = NULL \/ em = NULL THEN "23502" ELSE "none"

\* SQLSTATE of INSERT INTO patients: NOT NULL columns are checked before the
\* unique index on email.
PatientInsertError(fn, ln, em) ==
    IF fn = NULL \/ ln = NULL \/ em = NULL THEN "23502"
    ELSE IF \E r \in patients : r.email = em THEN "23505"
    ELSE "none"

\* mutant: patients.email without its UNIQUE constraint, for updates
PatientUpdateErrorNoUnique(p, fn, ln, em) == "none"

\* SQLSTATE of UPDATE patients ... WHERE id = p. A field the body leaves
\* undefined is not part of the statement, so no NOT NULL column is cleared.
PatientUpdateError(p, fn, ln, em) ==
    IF ~PatientExists(p) THEN "none"
    ELSE IF em # NULL /\ \E r \in patients : r.id # p /\ r.email = em THEN "23505"
    ELSE "none"

\* patient_id UUID REFERENCES patients(id)
ForeignKeyOk(p) == PatientExists(p)

\* ON DELETE CASCADE of the five dependent tables
CascadeSet(rows, p) == {r \in rows : r.patient_id # p}
\* mutant: a cascade that empties the table
CascadeSeqAll(rows, p) == <<>>
CascadeSeq(rows, p) == NotOfPatient(rows, p)

\* An id in a request that is not a UUID, such as 'abc'
BadId == 0

\* SQLSTATE of a query with .eq('patient_id', p): a value that is not a UUID
\* is an invalid_text_representation error
LookupError(p) == IF p = BadId THEN "22P02" ELSE "none"


\* ------------------------------------------------------------------ storage
\* no object: the file name of a request that has uploaded nothing, and the
\* signature_url the page holds when it shows the canvas (null)
NoFile == [bucket |-> NULL, patient_id |-> 0, n |-> 0]

FilesOf(bucket, p) == {f \in storage : f.bucket = bucket /\ f.patient_id = p}
\* `${bucket}/${patient_id}_${Date.now()}...`: a name not used before
FileName(bucket, p) ==
    [bucket |-> bucket, patient_id |-> p, n |-> Cardinality(FilesOf(bucket, p))]

\* ----------------------------------------------------------------- handlers
\* POST /api/patients
CreatePatient(fn, ln, em) ==
    LET err == PatientInsertError(fn, ln, em) IN
    /\ IF err = "none"
       THEN /\ patients' = patients \cup
                 {[id |-> nextId, first_name |-> fn, last_name |-> ln, email |-> em]}
            /\ nextId' = nextId + 1
            /\ resp' = Response(201, "none")
       ELSE /\ UNCHANGED <<patients, nextId>>
            /\ resp' = IF err = "23505"
                       THEN Response(409, "DUPLICATE_EMAIL")
                       ELSE Response(400, err)
    /\ UNCHANGED <<medical_intakes, contracts, bookings, treatment_plans,
                   transactions, storage>>

\* PUT /api/patients/:id
UpdatePatient(p, fn, ln, em) ==
    LET err == PatientUpdateError(p, fn, ln, em) IN
    /\ IF err = "none"
       THEN /\ patients' = {IF r.id = p
                            THEN [r EXCEPT
                                    !.first_name = IF fn = NULL THEN @ ELSE fn,
                                    !.last_name = IF ln = NULL THEN @ ELSE ln,
                                    !.email = IF em = NULL THEN @ ELSE em]
                            ELSE r : r \in patients}
            /\ resp' = Response(200, "none")
       ELSE /\ UNCHANGED patients
            /\ resp' = Response(400, err)
    /\ UNCHANGED <<nextId, medical_intakes, contracts, bookings, treatment_plans,
                   transactions, storage>>

\* mutant: transactions.patient_id without ON DELETE CASCADE
DeletePatientKeepsTransactions(p) ==
    /\ patients' = {r \in patients : r.id # p}
    /\ medical_intakes' = CascadeSet(medical_intakes, p)
    /\ contracts' = CascadeSet(contracts, p)
    /\ bookings' = CascadeSeq(bookings, p)
    /\ treatment_plans' = CascadeSet(treatment_plans, p)
    /\ resp' = Response(200, "Patient deleted successfully")
    /\ UNCHANGED <<nextId, storage, transactions>>

\* DELETE /api/patients/:id
DeletePatient(p) ==
    /\ patients' = {r \in patients : r.id # p}
    /\ medical_intakes' = CascadeSet(medical_intakes, p)
    /\ contracts' = CascadeSet(contracts, p)
    /\ bookings' = CascadeSeq(bookings, p)
    /\ treatment_plans' = CascadeSet(treatment_plans, p)
    /\ transactions' = CascadeSeq(transactions, p)
    /\ resp' = Response(200, "Patient deleted successfully")
    /\ UNCHANGED <<nextId, storage>>

\* mutant: an insert that leaves an existing intake row as it is
SaveAssessmentKeepsFirst(p, d) ==
    /\ IF ForeignKeyOk(p)
       THEN /\ medical_intakes' =
                 IF \E r \in medical_intakes : r.patient_id = p
                 THEN medical_intakes
                 ELSE medical_intakes \cup {[patient_id |-> p, data |-> d]}
            /\ resp' = Response(201, "none")
       ELSE /\ UNCHANGED medical_intakes
            /\ resp' = Response(400, "23503")
    /\ UNCHANGED <<patients, nextId, contracts, bookings, treatment_plans,
                   transactions, storage>>

\* POST /api/assessment
SaveAssessment(p, d) ==
    /\ IF ForeignKeyOk(p)
       THEN /\ medical_intakes' = {r \in medical_intakes : r.patient_id # p}
                                    \cup {[patient_id |-> p, data |-> d]}
            /\ resp' = Response(201, "none")
       ELSE /\ UNCHANGED medical_intakes
            /\ resp' = Response(400, "23503")
    /\ UNCHANGED <<patients, nextId, contracts, bookings, treatment_plans,
                   transactions, storage>>

\* GET /api/assessment/:patientId, the body data || null: <<row>> for the
\* row maybeSingle() found, <<>> for null
GetAssessment(p) ==
    IF \E r \in medical_intakes : r.patient_id = p
    THEN <<CHOOSE r \in medical_intakes : r.patient_id = p>>
    ELSE <<>>

\* GET /api/assessment/:patientId, the request: it reads only
FetchAssessment(p) ==
    /\ resp' = IF LookupError(p) # "none"
               THEN Response(400, LookupError(p))
               ELSE Response(200, "none")
    /\ UNCHANGED tables

\* mutant: an insert in place of the upsert, on a table without the
\* UNIQUE(patient_id) constraint
UploadSignatureInserts(p, hasFile) ==
    IF ~hasFile
    THEN /\ resp' = Response(400, "Signature file is required")
         /\ UNCHANGED tables
    ELSE /\ storage' = storage \cup {FileName("signatures", p)}
         /\ IF ForeignKeyOk(p)
            THEN /\ contracts' = contracts \cup
                      {[patient_id |-> p, signature_url |-> FileName("signatures", p)]}
                 /\ resp' = Response(201, "none")
            ELSE /\ UNCHANGED contracts
                 /\ resp' = Response(400, "23503")
         /\ UNCHANGED <<patients, nextId, medical_intakes, bookings,
                        treatment_plans, transactions>>


\* POST /api/contract
UploadSignature(p, hasFile) ==
    IF ~hasFile
    THEN /\ resp' = Response(400, "Signature file is required")
         /\ UNCHANGED tables
    ELSE /\ storage' = storage \cup {FileName("signatures", p)}
         /\ IF ForeignKeyOk(p)
            THEN /\ contracts' = {c \in contracts : c.patient_id # p} \cup
                      {[patient_id |-> p, signature_url |-> FileName("signatures", p)]}
                 /\ resp' = Response(201, "none")
            ELSE /\ UNCHANGED contracts
                 /\ resp' = Response(400, "23503")
         /\ UNCHANGED <<patients, nextId, medical_intakes, bookings,
                        treatment_plans, transactions>>

\* GET /api/contract/:patientId (the body's `signed`)
ContractSigned(p) == \E c \in contracts : c.patient_id = p

CheckContractStatus(p) ==
    /\ resp' = IF LookupError(p) # "none"
               THEN Response(400, LookupError(p))
               ELSE Response(200, "none")
    /\ UNCHANGED tables

\* mutant: bookings.patient_id without its foreign key
BookingInsertErrorNoForeignKey(p, st, d, ts) ==
    IF st = NULL \/ d = NULL \/ ts = NULL THEN "23502" ELSE "none"

\* SQLSTATE of INSERT INTO bookings
BookingInsertError(p, st, d, ts) ==
    IF st = NULL \/ d = NULL \/ ts = NULL THEN "23502"
    ELSE IF ~ForeignKeyOk(p) THEN "23503"
    ELSE "none"

\* mutant: a status column with another default
BookingRowPending(p, st, d, ts) ==
    [patient_id |-> p, service_type |-> st, date |-> d, time_slot |-> ts,
     status |-> "Pending"]

\* the row inserted: status takes its default
BookingRow(p, st, d, ts) ==
    [patient_id |-> p, service_type |-> st, date |-> d, time_slot |-> ts,
     status |-> "Confirmed"]

\* the insert statement of POST /api/bookings and its response
InsertBooking(p, st, d, ts) ==
    LET err == BookingInsertError(p, st, d, ts) IN
    IF err = "none"
    THEN /\ bookings' = Append(bookings, BookingRow(p, st, d, ts))
         /\ resp' = Response(201, "none")
    ELSE /\ UNCHANGED bookings
         /\ resp' = Response(400, err)

\* mutant: the handler without its contract lookup
CreateBookingUnchecked(p, st, d, ts) ==
    /\ InsertBooking(p, st, d, ts)
    /\ UNCHANGED <<patients, nextId, medical_intakes, contracts, treatment_plans,
                   transactions, storage>>

\* POST /api/bookings
CreateBooking(p, st, d, ts) ==
    /\ IF ~HasContract(p)
       THEN /\ resp' = Response(403,
                                "Patient must sign a contract before booking.")
            /\ UNCHANGED bookings
       ELSE InsertBooking(p, st, d, ts)
    /\ UNCHANGED <<patients, nextId, medical_intakes, contracts, treatment_plans,
                   transactions, storage>>

\* mutant: a handler that computes the total itself
SaveTreatmentPlanComputesTotal(p, body) ==
    /\ IF ForeignKeyOk(p)
       THEN /\ treatment_plans' = {r \in treatment_plans : r.patient_id # p} \cup
                 {[patient_id |-> p, service_id |-> body.service_id,
                   service_name |-> body.service_name, base_cost |-> body.base_cost,
                   discount |-> body.discount,
                   total_to_pay |-> IF body.base_cost - body.discount > 0
                                    THEN body.base_cost - body.discount ELSE 0,
                   status |-> "Active"]}
            /\ resp' = Response(201, "none")
       ELSE /\ UNCHANGED treatment_plans
            /\ resp' = Response(400, "23503")
    /\ UNCHANGED <<patients, nextId, medical_intakes, contracts, bookings,
                   transactions, storage>>


\* POST /api/treatment-plan
SaveTreatmentPlan(p, body) ==
    /\ IF ForeignKeyOk(p)
       THEN /\ treatment_plans' = {r \in treatment_plans : r.patient_id # p} \cup
                 {[patient_id |-> p, service_id |-> body.service_id,
                   service_name |-> body.service_name, base_cost |-> body.base_cost,
                   discount |-> body.discount, total_to_pay |-> body.total_to_pay,
                   status |-> "Active"]}
            /\ resp' = Response(201, "none")
       ELSE /\ UNCHANGED treatment_plans
            /\ resp' = Response(400, "23503")
    /\ UNCHANGED <<patients, nextId, medical_intakes, contracts, bookings,
                   transactions, storage>>

\* mutant: transactions.receipt_number without its UNIQUE constraint
TransactionInsertErrorNoUnique(p, amount, receipt) ==
    IF amount = <<>> THEN "23502"
    ELSE IF ~ForeignKeyOk(p) THEN "23503"
    ELSE "none"

\* SQLSTATE of INSERT INTO transactions; Number(amount) of a missing or
\* non-numeric field is NaN, which is sent as null
TransactionInsertError(p, amount, receipt) ==
    IF amount = <<>> THEN "23502"
    ELSE IF ~ForeignKeyOk(p) THEN "23503"
    ELSE IF \E i \in 1..Len(transactions) : transactions[i].receipt_number = receipt
         THEN "23505"
    ELSE "none"

\* mutant: a handler that refuses a payment exceeding the plan's balance
RecordTransactionWithinBalance(p, amount, hasFile, receipt) ==
    IF ~hasFile
    THEN /\ resp' = Response(400, "Proof of payment is required")
         /\ UNCHANGED tables
    ELSE LET err == TransactionInsertError(p, amount, receipt)
             over == /\ amount # <<>>
                     /\ \E r \in treatment_plans :
                          /\ r.patient_id = p
                          /\ SumAmounts(OfPatient(transactions, p)) + amount[1]
                               > r.total_to_pay
         IN
         /\ storage' = storage \cup {FileName("proofs", p)}
         /\ IF err = "none" /\ ~over
            THEN /\ transactions' = Append(transactions,
                      [patient_id |-> p, amount |-> amount[1], type |-> "Installment",
                       proof_url |-> FileName("proofs", p),
                       receipt_number |-> receipt])
                 /\ resp' = Response(201, "none")
            ELSE /\ UNCHANGED transactions
                 /\ resp' = Response(400, IF over THEN "exceeds balance" ELSE err)
         /\ UNCHANGED <<patients, nextId, medical_intakes, contracts, bookings,
                        treatment_plans>>

\* mutant: a handler that takes a payment without its proof
RecordTransactionWithoutProof(p, amount, hasFile, receipt) ==
    LET err == TransactionInsertError(p, amount, receipt) IN
    /\ storage' = IF hasFile THEN storage \cup {FileName("proofs", p)} ELSE storage
    /\ IF err = "none"
       THEN /\ transactions' = Append(transactions,
                 [patient_id |-> p, amount |-> amount[1], type |-> "Installment",
                  proof_url |-> IF hasFile THEN FileName("proofs", p) ELSE NoFile,
                  receipt_number |-> receipt])
            /\ resp' = Response(201, "none")
       ELSE /\ UNCHANGED transactions
            /\ resp' = Response(400, err)
    /\ UNCHANGED <<patients, nextId, medical_intakes, contracts, bookings,
                   treatment_plans>>

\* POST /api/transactions
RecordTransaction(p, amount, hasFile, receipt) ==
    IF ~hasFile
    THEN /\ resp' = Response(400, "Proof of payment is required")
         /\ UNCHANGED tables
    ELSE LET err == TransactionInsertError(p, amount, receipt) IN
         /\ storage' = storage \cup {FileName("proofs", p)}
         /\ IF err = "none"
            THEN /\ transactions' = Append(transactions,
                      [patient_id |-> p, amount |-> amount[1], type |-> "Installment",
                       proof_url |-> FileName("proofs", p),
                       receipt_number |-> receipt])
                 /\ resp' = Response(201, "none")
            ELSE /\ UNCHANGED transactions
                 /\ resp' = Response(400, err)
         /\ UNCHANGED <<patients, nextId, medical_intakes, contracts, bookings,
                        treatment_plans>>

\* GET /api/financials/:patientId
HasPlan(p) == \E r \in treatment_plans : r.patient_id = p
PlanOf(p) == CHOOSE r \in treatment_plans : r.patient_id = p

\* mutant: the transactions query without .eq('patient_id', patientId)
TransactionsOfAnyPatient(p) == Reverse(transactions)

\* .order('created_at', { ascending: false })
TransactionsOf(p) == Reverse(OfPatient(transactions, p))

AmountPaid(p) == SumAmounts(TransactionsOf(p))

\* mutant: > for >=
PaymentStatusStrict(amountPaid, total) ==
    IF amountPaid > total THEN "Payment Done" ELSE "Payment Pending"

PaymentStatus(amountPaid, total) ==
    IF amountPaid >= total THEN "Payment Done" ELSE "Payment Pending"

Financials(p) ==
    [patient_id |-> p,
     total_amount |-> PlanOf(p).total_to_pay,
     amount_paid |-> AmountPaid(p),
     status |-> PaymentStatus(AmountPaid(p), PlanOf(p).total_to_pay),
     transactions |-> TransactionsOf(p)]

\* mutant: a summary with a zero total for a patient without a plan
GetFinancialsWithoutPlan(p) ==
    /\ resp' = Response(200, "none")
    /\ UNCHANGED tables


GetFinancials(p) ==
    /\ resp' = IF ~HasPlan(p)
               THEN Response(404, "No treatment plan found")
               ELSE Response(200, "none")
    /\ UNCHANGED tables

\* the Financials page of a browser with billingRecord = null
NoBilling(p) ==
    [patient |-> p, loaded |-> FALSE, total_amount |-> 0, amount_paid |-> 0,
     status |-> "Payment Pending", transactions |-> <<>>,
     isPaymentModalOpen |-> FALSE]

\* a connection with no request in progress
IdleRequest ==
    [pc |-> "idle", patient_id |-> 0, service_type |-> NULL, date |-> NULL,
     time_slot |-> NULL, contract |-> FALSE, file |-> NoFile, status |-> 0]

\* a search that has not been made
NoSearch ==
    [rows |-> {}, term |-> <<>>, by |-> "none", ids |-> {}]

\* the CalendarPage while it is not mounted, and its useState defaults
NoCalendarPage ==
    [selectedPatient |-> 0, selectedDate |-> NULL, selectedSlot |-> NULL,
     bookedSlots |-> <<>>, isBookingConfirmed |-> FALSE, alert |-> FALSE]

InitState ==
    /\ patients = {}
    /\ nextId = 1
    /\ medical_intakes = {}
    /\ contracts = {}
    /\ bookings = <<>>
    /\ treatment_plans = {}
    /\ transactions = <<>>
    /\ storage = {}
    /\ resp = Response(0, "none")
    /\ inflight = [c \in Connections |-> IdleRequest]
    /\ contractPage = [patient |-> 0, isSigned |-> FALSE,
                       existingSignature |-> NoFile, drawn |-> FALSE]
    /\ financialsPage = [b \in Browsers |-> NoBilling(0)]
    /\ planPage = [patient |-> 0, selectedServiceId |-> "", cost |-> 0,
                   discount |-> 0]
    /\ appContent = [selectedPatient |-> 0, isContractSigned |-> FALSE,
                     pending |-> {}]
    /\ calendarPage = NoCalendarPage
    /\ patientContext = [t \in Tabs |-> <<>>]
    /\ localStorage = <<>>

Init == InitState /\ search = NoSearch

\* ------------------------------------------------- the sequential API: Spec
\* Requests arrive one at a time and each handler runs to its response.
\* The bounds cap the fresh ids, the rows and the stored objects.  A client
\* names only ids the server has handed out (uuid v4), live or deleted.
KnownIds == 1..(nextId - 1)

\* multipart bodies of POST /api/transactions
TxRequests(amounts) ==
    {[amount |-> <<>>, hasFile |-> FALSE, receipt |-> r] : r \in {100000}}
    \cup {[amount |-> <<>>, hasFile |-> TRUE, receipt |-> r] : r \in {100000}}
    \cup {[amount |-> <<a>>, hasFile |-> TRUE, receipt |-> r] :
            a \in amounts, r \in Receipts}

ApiCreatePatient ==
    \E fn \in FirstNames \cup {NULL}, ln \in LastNames, em \in Emails :
        /\ PatientInsertError(fn, ln, em) = "none" => nextId <= MaxPatients
        /\ CreatePatient(fn, ln, em)
        /\ UNCHANGED clients

\* the same with both names given
ApiCreateNamedPatient ==
    \E em \in Emails :
        /\ PatientInsertError("Ann", "Lee", em) = "none" => nextId <= MaxPatients
        /\ CreatePatient("Ann", "Lee", em)
        /\ UNCHANGED clients

ApiUpdatePatient ==
    \E p \in KnownIds, fn \in FirstNames \cup {NULL}, ln \in LastNames,
       em \in Emails \cup {NULL} : UpdatePatient(p, fn, ln, em) /\ UNCHANGED clients

ApiDeletePatient == \E p \in KnownIds : DeletePatient(p) /\ UNCHANGED clients

ApiSaveAssessment ==
    \E p \in KnownIds, d \in AssessmentData :
        SaveAssessment(p, d) /\ UNCHANGED clients

ApiUploadSignature ==
    \E p \in KnownIds, hasFile \in BOOLEAN :
        /\ hasFile => Cardinality(storage) < MaxFiles
        /\ UploadSignature(p, hasFile)
        /\ UNCHANGED clients

ApiCreateBooking ==
    \E p \in KnownIds, st \in ServiceTypes \cup {NULL}, d \in Dates,
       ts \in TimeSlots :
        /\ Len(bookings) < MaxBookings
        /\ CreateBooking(p, st, d, ts)
        /\ UNCHANGED clients

ApiSaveTreatmentPlan ==
    \E p \in KnownIds : SaveTreatmentPlan(p, PlanBody(3, 1, 2)) /\ UNCHANGED clients

ApiRecordTransaction ==
    \E p \in KnownIds, r \in TxRequests({1}) :
        /\ r.hasFile => Cardinality(storage) < MaxFiles /\ Len(transactions) < MaxTx
        /\ RecordTransaction(p, r.amount, r.hasFile, r.receipt)
        /\ UNCHANGED clients

Next ==
    \/ ApiCreatePatient
    \/ ApiUpdatePatient
    \/ ApiDeletePatient
    \/ ApiSaveAssessment
    \/ ApiUploadSignature
    \/ ApiCreateBooking
    \/ ApiSaveTreatmentPlan
    \/ ApiRecordTransaction

Spec == Init /\ [][Next]_vars

\* ------------------------------------------- concurrent requests: SpecRace
\* Each supabase call of a handler is one step; between the calls of one
\* request the calls of the requests on the other connections may run.
\* POST /api/bookings, first call: the contract lookup
BookingLookup(c, p, st, d, ts) ==
    /\ inflight[c].pc = "idle"
    /\ inflight' = [inflight EXCEPT ![c] =
         [pc |-> "bookingLookedUp", patient_id |-> p, service_type |-> st,
          date |-> d, time_slot |-> ts, contract |-> HasContract(p),
          file |-> NoFile, status |-> 0]]
    /\ UNCHANGED <<tables, resp, contractPage, financialsPage, planPage,
                   appContent, search, calendarPage, patientContext,
                   localStorage>>

\* POST /api/bookings, the rest: the 403, or the insert and its response
BookingFinish(c) ==
    LET r == inflight[c] IN
    /\ r.pc = "bookingLookedUp"
    /\ IF ~r.contract
       THEN /\ resp' = Response(403, "Patient must sign a contract before booking.")
            /\ UNCHANGED bookings
       ELSE InsertBooking(r.patient_id, r.service_type, r.date, r.time_slot)
    /\ inflight' = [inflight EXCEPT ![c] =
         [r EXCEPT !.pc = "idle", !.status = resp'.status]]
    /\ UNCHANGED <<patients, nextId, medical_intakes, contracts, treatment_plans,
                   transactions, storage, contractPage, financialsPage, planPage,
                   appContent, search, calendarPage, patientContext,
                   localStorage>>

\* POST /api/contract, first call: the upload to the bucket
SignatureUpload(c, p) ==
    /\ inflight[c].pc = "idle"
    /\ storage' = storage \cup {FileName("signatures", p)}
    /\ inflight' = [inflight EXCEPT ![c] =
         [IdleRequest EXCEPT !.pc = "signatureUploaded", !.patient_id = p,
                             !.file = FileName("signatures", p)]]
    /\ UNCHANGED <<patients, nextId, medical_intakes, contracts, bookings,
                   treatment_plans, transactions, resp, contractPage,
                   financialsPage, planPage, appContent, search,
                   calendarPage, patientContext, localStorage>>

\* POST /api/contract, the rest: the upsert and its response
SignatureUpsert(c) ==
    LET r == inflight[c] IN
    /\ r.pc = "signatureUploaded"
    /\ IF ForeignKeyOk(r.patient_id)
       THEN /\ contracts' = {x \in contracts : x.patient_id # r.patient_id} \cup
                 {[patient_id |-> r.patient_id, signature_url |-> r.file]}
            /\ resp' = Response(201, "none")
       ELSE /\ UNCHANGED contracts
            /\ resp' = Response(400, "23503")
    /\ inflight' = [inflight EXCEPT ![c] =
         [r EXCEPT !.pc = "idle", !.status = resp'.status]]
    /\ UNCHANGED <<patients, nextId, medical_intakes, bookings, treatment_plans,
                   transactions, storage, contractPage, financialsPage, planPage,
                   appContent, search, calendarPage, patientContext,
                   localStorage>>

RaceBookingLookup ==
    \E c \in Connections, p \in KnownIds, st \in ServiceTypes, d \in Dates,
       ts \in TimeSlots : BookingLookup(c, p, st, d, ts)

RaceBookingFinish ==
    \E c \in Connections :
        /\ Len(bookings) < MaxBookings
        /\ BookingFinish(c)

RaceSignatureUpload ==
    \E c \in Connections, p \in KnownIds :
        /\ Cardinality(storage) < MaxFiles
        /\ SignatureUpload(c, p)

RaceSignatureUpsert == \E c \in Connections : SignatureUpsert(c)

NextRace ==
    \/ ApiCreateNamedPatient
    \/ ApiDeletePatient
    \/ RaceBookingLookup
    \/ RaceBookingFinish
    \/ RaceSignatureUpload
    \/ RaceSignatureUpsert

SpecRace == Init /\ [][NextRace]_vars

\* ------------------------------------- the DigitalContract page: SpecContract
\* GET /api/contract/:patientId: the body's `contract`
ContractOf(p) == CHOOSE c \in contracts : c.patient_id = p

\* The patient is selected and the page's effect runs loadContract
DcLoadContract(p) ==
    /\ contractPage' =
         IF ContractSigned(p)
         THEN [patient |-> p, isSigned |-> TRUE,
               existingSignature |-> ContractOf(p).signature_url, drawn |-> FALSE]
         ELSE [patient |-> p, isSigned |-> FALSE,
               existingSignature |-> NoFile, drawn |-> FALSE]
    /\ resp' = Response(200, "none")
    /\ UNCHANGED <<tables, inflight, financialsPage, planPage, appContent, search,
                   calendarPage, patientContext, localStorage>>

\* The patient draws on the SignatureCanvas, shown while there is no
\* existingSignature
DcDraw ==
    /\ contractPage.patient # 0
    /\ contractPage.existingSignature = NoFile
    /\ contractPage' = [contractPage EXCEPT !.drawn = TRUE]
    /\ UNCHANGED <<tables, resp, inflight, financialsPage, planPage,
                   appContent, search, calendarPage, patientContext,
                   localStorage>>

\* mutant: 'Clear & Resign' that also deletes the stored contract
DcClearUnsigns ==
    /\ contractPage.patient # 0
    /\ contractPage' = [contractPage EXCEPT !.isSigned = FALSE,
                          !.existingSignature = NoFile, !.drawn = FALSE]
    /\ contracts' = {c \in contracts : c.patient_id # contractPage.patient}
    /\ UNCHANGED <<patients, nextId, medical_intakes, bookings, treatment_plans,
                   transactions, storage, resp, inflight, financialsPage, planPage,
                   appContent, search, calendarPage, patientContext,
                   localStorage>>

\* 'Clear & Resign'
DcClear ==
    /\ contractPage.patient # 0
    /\ contractPage' = [contractPage EXCEPT !.isSigned = FALSE,
                          !.existingSignature = NoFile, !.drawn = FALSE]
    /\ UNCHANGED <<tables, resp, inflight, financialsPage, planPage,
                   appContent, search, calendarPage, patientContext,
                   localStorage>>

\* 'Confirm & Sign': shown while there is no existingSignature, disabled
\* while isSigned; an empty canvas only alerts
DcConfirm ==
    /\ contractPage.patient # 0
    /\ contractPage.existingSignature = NoFile
    /\ ~contractPage.isSigned
    /\ contractPage.drawn
    /\ UploadSignature(contractPage.patient, TRUE)
    /\ contractPage' =
         IF resp'.status = 201
         THEN [contractPage EXCEPT !.isSigned = TRUE, !.drawn = FALSE,
                 !.existingSignature = FileName("signatures", contractPage.patient)]
         ELSE contractPage
    /\ appContent' =
         IF resp'.status = 201
         THEN [appContent EXCEPT !.isContractSigned = TRUE]
         ELSE appContent
    /\ UNCHANGED <<inflight, financialsPage, planPage, search, calendarPage,
                   patientContext, localStorage>>

ContractUpdatePatient ==
    \E p \in KnownIds, em \in Emails :
        UpdatePatient(p, "Ann", "Lee", em) /\ UNCHANGED clients

ContractCreateBooking ==
    \E p \in KnownIds, st \in ServiceTypes, d \in Dates, ts \in TimeSlots :
        /\ Len(bookings) < MaxBookings
        /\ CreateBooking(p, st, d, ts)
        /\ UNCHANGED clients

ContractRecordTransaction ==
    \E p \in KnownIds :
        /\ Cardinality(storage) < MaxFiles /\ Len(transactions) < MaxTx
        /\ RecordTransaction(p, <<1>>, TRUE, 100000)
        /\ UNCHANGED clients

PageLoadContract == \E p \in KnownIds : DcLoadContract(p)

PageConfirm == Cardinality(storage) < MaxFiles /\ DcConfirm

NextContract ==
    \/ ApiCreateNamedPatient
    \/ ContractUpdatePatient
    \/ ApiDeletePatient
    \/ ContractCreateBooking
    \/ ApiSaveTreatmentPlan
    \/ ContractRecordTransaction
    \/ PageLoadContract
    \/ DcDraw
    \/ DcClear
    \/ PageConfirm

SpecContract == Init /\ [][NextContract]_vars

\* ------------------------------------------------ the billing ledger: SpecLedger
\* Plans, payments and the financial summary, one request at a time.
\* A receipt number drawn at random is a new one or that of a stored row.
ReceiptDraws == {100000 + Len(transactions), 100000}

LedgerSaveTreatmentPlan ==
    \E p \in KnownIds, body \in {PlanBody(3, 0, 3), PlanBody(3, 1, 2)} :
        SaveTreatmentPlan(p, body) /\ UNCHANGED clients

LedgerRecordTransaction ==
    \E p \in KnownIds, a \in {1, 2}, receipt \in ReceiptDraws :
        /\ Cardinality(storage) < MaxPayments
        /\ RecordTransaction(p, <<a>>, TRUE, receipt)
        /\ UNCHANGED clients

LedgerGetFinancials == \E p \in KnownIds : GetFinancials(p) /\ UNCHANGED clients

NextLedger ==
    \/ ApiCreateNamedPatient
    \/ ApiDeletePatient
    \/ LedgerSaveTreatmentPlan
    \/ LedgerRecordTransaction
    \/ LedgerGetFinancials

SpecLedger == Init /\ [][NextLedger]_vars

\* ------------------------------------------ the Financials page: SpecPay
\* Several browsers show the Financials page; each keeps its own
\* billingRecord, fetched when the patient is selected.
\* The patient is selected and the page's effect runs fetchBillingData
FinFetchBillingData(b, p) ==
    /\ financialsPage' = [financialsPage EXCEPT ![b] =
         IF HasPlan(p)
         THEN [patient |-> p, loaded |-> TRUE,
               total_amount |-> Financials(p).total_amount,
               amount_paid |-> Financials(p).amount_paid,
               status |-> Financials(p).status,
               transactions |-> Financials(p).transactions,
               isPaymentModalOpen |-> FALSE]
         ELSE NoBilling(p)]
    /\ resp' = IF HasPlan(p) THEN Response(200, "none")
               ELSE Response(404, "No treatment plan found")
    /\ UNCHANGED <<tables, inflight, contractPage, planPage, appContent, search,
                   calendarPage, patientContext, localStorage>>

\* 'Record Payment', rendered while status is 'Payment Pending'
FinOpenPaymentModal(b) ==
    /\ financialsPage[b].loaded
    /\ financialsPage[b].status = "Payment Pending"
    /\ ~financialsPage[b].isPaymentModalOpen
    /\ financialsPage' = [financialsPage EXCEPT ![b].isPaymentModalOpen = TRUE]
    /\ UNCHANGED <<tables, resp, inflight, contractPage, planPage,
                   appContent, search, calendarPage, patientContext,
                   localStorage>>

\* mutant: the row as the form posted it, with the type the page sent
NewTransactionOfForm(p, amount, receipt) ==
    [patient_id |-> p, amount |-> amount, type |-> "Cash",
     proof_url |-> FileName("proofs", p), receipt_number |-> receipt]

\* The row the server answers a recorded payment with
NewTransaction(p, amount, receipt) ==
    [patient_id |-> p, amount |-> amount, type |-> "Installment",
     proof_url |-> FileName("proofs", p), receipt_number |-> receipt]

\* mutant: a form whose amount input has no max
FinRecordPaymentNoMax(b, amount, isCashPayment, receipt) ==
    LET page == financialsPage[b]
        newAmountPaid == page.amount_paid + amount
    IN
    /\ page.loaded
    /\ page.isPaymentModalOpen
    /\ RecordTransaction(page.patient, <<amount>>, ~isCashPayment, receipt)
    /\ financialsPage' = [financialsPage EXCEPT ![b] =
         IF resp'.status = 201
         THEN [page EXCEPT
                 !.amount_paid = newAmountPaid,
                 !.status = PaymentStatus(newAmountPaid, page.total_amount),
                 !.transactions =
                     <<NewTransaction(page.patient, amount, receipt)>> \o @,
                 !.isPaymentModalOpen = FALSE]
         ELSE page]
    /\ UNCHANGED <<inflight, contractPage, planPage, appContent, search,
                   calendarPage, patientContext, localStorage>>

\* The payment form is submitted: the number input lets through an amount up
\* to max = total_amount - amount_paid; with 'Paid with Cash' ticked no proof
\* file is held and none is appended to the form data
FinRecordPayment(b, amount, isCashPayment, receipt) ==
    LET page == financialsPage[b]
        newAmountPaid == page.amount_paid + amount
    IN
    /\ page.loaded
    /\ page.isPaymentModalOpen
    /\ amount <= page.total_amount - page.amount_paid
    /\ RecordTransaction(page.patient, <<amount>>, ~isCashPayment, receipt)
    /\ financialsPage' = [financialsPage EXCEPT ![b] =
         IF resp'.status = 201
         THEN [page EXCEPT
                 !.amount_paid = newAmountPaid,
                 !.status = PaymentStatus(newAmountPaid, page.total_amount),
                 !.transactions =
                     <<NewTransaction(page.patient, amount, receipt)>> \o @,
                 !.isPaymentModalOpen = FALSE]
         ELSE page]
    /\ UNCHANGED <<inflight, contractPage, planPage, appContent, search,
                   calendarPage, patientContext, localStorage>>

PayCreatePatient ==
    /\ PatientInsertError("Ann", "Lee", "a@x.uk") = "none" => nextId <= MaxPatients
    /\ CreatePatient("Ann", "Lee", "a@x.uk")
    /\ UNCHANGED clients

PaySaveTreatmentPlan ==
    \E p \in KnownIds : SaveTreatmentPlan(p, PlanBody(3, 0, 3)) /\ UNCHANGED clients

PaySelectPatient == \E b \in Browsers, p \in KnownIds : FinFetchBillingData(b, p)

PayOpenPaymentModal == \E b \in Browsers : FinOpenPaymentModal(b)

PayRecordPayment ==
    \E b \in Browsers, a \in {1, 2}, isCashPayment \in BOOLEAN,
       receipt \in ReceiptDraws :
        /\ ~isCashPayment => Cardinality(storage) < MaxPayments
        /\ FinRecordPayment(b, a, isCashPayment, receipt)

NextPay ==
    \/ PayCreatePatient
    \/ PaySaveTreatmentPlan
    \/ PaySelectPatient
    \/ PayOpenPaymentModal
    \/ PayRecordPayment

SpecPay == Init /\ [][NextPay]_vars

\* --------------------------------------- the TreatmentPlan page: SpecPlan
\* mutant: the total without its floor at zero
TotalToPayUnfloored(cost, discount) == cost - discount

\* const totalToPay = Math.max(0, cost - discount)
TotalToPay(cost, discount) ==
    IF cost - discount > 0 THEN cost - discount ELSE 0

\* needsApproval
NeedsApproval(page) ==
    /\ TotalToPay(page.cost, page.discount) < ApprovalThreshold
    /\ page.selectedServiceId # ""

TpSelectPatient(p) ==
    /\ planPage' = [planPage EXCEPT !.patient = p]
    /\ UNCHANGED <<tables, resp, inflight, contractPage, financialsPage,
                   appContent, search, calendarPage, patientContext,
                   localStorage>>

\* The service is chosen; the effect sets its default price and no discount
TpSelectService(sid) ==
    /\ planPage' = [planPage EXCEPT !.selectedServiceId = sid,
                      !.cost = DefaultPrice(sid), !.discount = 0]
    /\ UNCHANGED <<tables, resp, inflight, contractPage, financialsPage,
                   appContent, search, calendarPage, patientContext,
                   localStorage>>

TpSetCost(v) ==
    /\ planPage' = [planPage EXCEPT !.cost = v]
    /\ UNCHANGED <<tables, resp, inflight, contractPage, financialsPage,
                   appContent, search, calendarPage, patientContext,
                   localStorage>>

TpSetDiscount(v) ==
    /\ planPage' = [planPage EXCEPT !.discount = v]
    /\ UNCHANGED <<tables, resp, inflight, contractPage, financialsPage,
                   appContent, search, calendarPage, patientContext,
                   localStorage>>

\* 'Generate Contract', disabled while needsApproval or without a service
TpGenerateContract ==
    /\ planPage.patient # 0
    /\ planPage.selectedServiceId # ""
    /\ ~NeedsApproval(planPage)
    /\ SaveTreatmentPlan(planPage.patient,
         [service_id |-> planPage.selectedServiceId,
          service_name |-> ServiceName(planPage.selectedServiceId),
          base_cost |-> planPage.cost, discount |-> planPage.discount,
          total_to_pay |-> TotalToPay(planPage.cost, planPage.discount)])
    /\ UNCHANGED clients

PlanSelectPatient == \E p \in KnownIds : TpSelectPatient(p)

PlanSelectService == \E sid \in ServiceIds : TpSelectService(sid)

PlanSetCost == \E v \in PriceInputs : TpSetCost(v)

PlanSetDiscount == \E v \in PriceInputs : TpSetDiscount(v)

NextPlan ==
    \/ PayCreatePatient
    \/ PlanSelectPatient
    \/ PlanSelectService
    \/ PlanSetCost
    \/ PlanSetDiscount
    \/ TpGenerateContract

SpecPlan == Init /\ [][NextPlan]_vars

\* ------------------------------------------ treatment plans: SpecPlanStore
\* Bodies of POST /api/treatment-plan: any client may post any numbers
PlanBodies ==
    {PlanBody(b, d, t) : b \in {1, 3}, d \in {0, 1, 4}, t \in {-1, 0, 2, 3}}

StoreSaveTreatmentPlan ==
    \E p \in KnownIds, body \in PlanBodies :
        SaveTreatmentPlan(p, body) /\ UNCHANGED clients

NextPlanStore ==
    \/ ApiCreateNamedPatient
    \/ ApiDeletePatient
    \/ StoreSaveTreatmentPlan

SpecPlanStore == Init /\ [][NextPlanStore]_vars


\* ------------------------------------------- assessments: SpecAssessment
\* Questionnaire documents posted to /api/assessment
Answers == {"d1", "d2", "d3"}

AssessSave ==
    \E p \in KnownIds, d \in Answers : SaveAssessment(p, d) /\ UNCHANGED clients

AssessFetch == \E p \in KnownIds : FetchAssessment(p) /\ UNCHANGED clients

NextAssessment ==
    \/ ApiCreateNamedPatient
    \/ ApiDeletePatient
    \/ AssessSave
    \/ AssessFetch

SpecAssessment == Init /\ [][NextAssessment]_vars


\* ---------------------------------------------- failing queries: SpecErrors
\* The ids a client may put in a request: those issued, and a malformed one
RequestIds == KnownIds \cup {BadId}

ErrUploadSignature ==
    \E p \in KnownIds :
        /\ Cardinality(storage) < MaxFiles
        /\ UploadSignature(p, TRUE)
        /\ UNCHANGED clients

ErrCreateBooking ==
    \E p \in RequestIds, st \in ServiceTypes \cup {NULL}, d \in Dates,
       ts \in TimeSlots :
        /\ (HasContract(p) /\ BookingInsertError(p, st, d, ts) = "none")
             => Len(bookings) < MaxBookings
        /\ CreateBooking(p, st, d, ts)
        /\ UNCHANGED clients

ErrGetFinancials == \E p \in RequestIds : GetFinancials(p) /\ UNCHANGED clients

ErrCheckContractStatus ==
    \E p \in RequestIds : CheckContractStatus(p) /\ UNCHANGED clients

ErrFetchAssessment == \E p \in RequestIds : FetchAssessment(p) /\ UNCHANGED clients

NextErrors ==
    \/ ApiCreatePatient
    \/ ApiDeletePatient
    \/ ErrUploadSignature
    \/ ErrCreateBooking
    \/ ApiSaveTreatmentPlan
    \/ ErrGetFinancials
    \/ ErrCheckContractStatus
    \/ ErrFetchAssessment

SpecErrors == Init /\ [][NextErrors]_vars


\* ------------------------------------------------ the calendar gate: SpecGate
\* AppContent keeps isContractSigned for the selected patient; the effect on
\* selectedPatient asks GET /api/contract/:id and sets it when the answer
\* arrives. Requests are answered, and answers delivered, in any order.
\* the DigitalContract page while it is not mounted
NoContractPage ==
    [patient |-> 0, isSigned |-> FALSE, existingSignature |-> NoFile,
     drawn |-> FALSE]

\* A patient is picked in the Patients page; the effect sends the request
AppSelectPatient(p) ==
    /\ appContent' = [appContent EXCEPT
         !.selectedPatient = p,
         !.pending = @ \cup {[patient |-> p, answered |-> FALSE, signed |-> FALSE]}]
    /\ contractPage' = NoContractPage
    /\ UNCHANGED <<tables, resp, inflight, financialsPage, planPage, search,
                   calendarPage, patientContext, localStorage>>

\* clearPatient: the effect sets isContractSigned to false
AppClearPatient ==
    /\ appContent.selectedPatient # 0
    /\ appContent' = [appContent EXCEPT !.selectedPatient = 0,
                                       !.isContractSigned = FALSE]
    /\ contractPage' = NoContractPage
    /\ UNCHANGED <<tables, resp, inflight, financialsPage, planPage, search,
                   calendarPage, patientContext, localStorage>>

\* The server answers one of the contract-status requests
AppServeStatus(r) ==
    /\ r \in appContent.pending
    /\ ~r.answered
    /\ CheckContractStatus(r.patient)
    /\ appContent' = [appContent EXCEPT !.pending = (@ \ {r}) \cup
         {[patient |-> r.patient, answered |-> TRUE,
           signed |-> ContractSigned(r.patient)]}]
    /\ UNCHANGED <<inflight, contractPage, financialsPage, planPage, search,
                   calendarPage, patientContext, localStorage>>

\* .then(res => setIsContractSigned(res.signed))
AppReceiveStatus(r) ==
    /\ r \in appContent.pending
    /\ r.answered
    /\ appContent' = [appContent EXCEPT !.isContractSigned = r.signed,
                                       !.pending = @ \ {r}]
    /\ UNCHANGED <<tables, resp, inflight, contractPage, financialsPage, planPage,
                   search, calendarPage, patientContext, localStorage>>

GateSelectPatient ==
    \E p \in KnownIds :
        /\ Cardinality(appContent.pending) < MaxPending
        /\ AppSelectPatient(p)

GateServeStatus == \E r \in appContent.pending : AppServeStatus(r)

GateReceiveStatus == \E r \in appContent.pending : AppReceiveStatus(r)

\* the /contract route shows the page for the selected patient
GateOpenContract ==
    /\ appContent.selectedPatient # 0
    /\ DcLoadContract(appContent.selectedPatient)

NextGate ==
    \/ ApiCreateNamedPatient
    \/ GateSelectPatient
    \/ AppClearPatient
    \/ GateServeStatus
    \/ GateReceiveStatus
    \/ GateOpenContract
    \/ DcDraw
    \/ PageConfirm

SpecGate == Init /\ [][NextGate]_vars


\* --------------------------------------------- patient search: SpecSearch
\* Texts are sequences of characters. toLowerCase / ILIKE case folding:
Lower(c) ==
    CASE c = "A" -> "a"
      [] c = "L" -> "l"
      [] OTHER -> c

LowerText(t) == [i \in 1..Len(t) |-> Lower(t[i])]

\* String.prototype.includes
Includes(t, term) ==
    \E i \in 0..(Len(t) - Len(term)) :
        \A j \in 1..Len(term) : t[i + j] = term[j]

\* text ILIKE pattern: % matches any run of characters, _ any one character
RECURSIVE ILike(_, _)
ILike(t, pat) ==
    IF pat = <<>> THEN t = <<>>
    ELSE IF Head(pat) = "%"
         THEN ILike(t, Tail(pat)) \/ (t # <<>> /\ ILike(Tail(t), pat))
         ELSE /\ t # <<>>
              /\ Head(pat) = "_" \/ Lower(Head(pat)) = Lower(Head(t))
              /\ ILike(Tail(t), Tail(pat))

\* the rows a search may run over; phone is a nullable column
SearchCandidates ==
    {[id |-> 1, first_name |-> <<"A", "n">>, last_name |-> <<"L", "e">>,
      email |-> <<"a", "@", "x">>, phone |-> <<"0", "7">>],
     [id |-> 2, first_name |-> <<"e", "l">>, last_name |-> <<"n", "a">>,
      email |-> <<"l", "@", "y">>, phone |-> <<"0", "2", "7">>],
     [id |-> 3, first_name |-> <<"L", "a">>, last_name |-> <<"n", "e">>,
      email |-> <<"E", "@", "x">>, phone |-> <<"7", "0">>]}

SearchTerms ==
    {<<>>, <<"a">>, <<"A">>, <<"l", "E">>, <<"@", "x">>, <<"x", "@">>, <<"7">>,
     <<"0", "7">>, <<"_">>, <<"%">>, <<"n", "_">>}

\* GET /api/patients?search=term: the ids of the rows returned
ServerSearch(rows, term) ==
    IF term = <<>> THEN {r.id : r \in rows}
    ELSE LET pat == <<"%">> \o term \o <<"%">> IN
         {r.id : r \in {x \in rows : \/ ILike(x.first_name, pat)
                                     \/ ILike(x.last_name, pat)
                                     \/ ILike(x.email, pat)}}

\* Patients.filteredPatients: the ids of the patients shown
FilteredPatients(rows, term) ==
    {r.id : r \in {x \in rows :
        \/ Includes(LowerText(x.first_name \o <<" ">> \o x.last_name),
                    LowerText(term))
        \/ Includes(LowerText(x.email), LowerText(term))
        \/ Includes(x.phone, term)}}

InitSearch ==
    /\ InitState
    /\ \E rows \in SUBSET SearchCandidates, term \in SearchTerms :
         search = [NoSearch EXCEPT !.rows = rows, !.term = term]

SearchOnServer ==
    /\ search.by = "none"
    /\ search' = [search EXCEPT !.by = "server",
                                !.ids = ServerSearch(search.rows, search.term)]
    /\ UNCHANGED <<tables, resp, inflight, contractPage, financialsPage,
                   planPage, appContent, calendarPage, patientContext,
                   localStorage>>

SearchInPage ==
    /\ search.by = "none"
    /\ search' = [search EXCEPT !.by = "page",
                                !.ids = FilteredPatients(search.rows, search.term)]
    /\ UNCHANGED <<tables, resp, inflight, contractPage, financialsPage,
                   planPage, appContent, calendarPage, patientContext,
                   localStorage>>

NextSearch ==
    \/ SearchOnServer
    \/ SearchInPage

SpecSearch == InitSearch /\ [][NextSearch]_vars


\* ------------------------------------------------- the dashboard: SpecStats
\* mutant: the revenue figure taken from the daily average
DashboardStatsAverageRevenue ==
    [totalPatients |-> Cardinality(patients),
     surgeryBookings |-> Len(bookings),
     totalRevenue |-> IF Len(transactions) = 0 THEN 0
                      ELSE SumAmounts(transactions) \div Len(transactions),
     pendingReports |->
         Cardinality({r \in treatment_plans : r.status # "Completed"})]

\* GET /api/dashboard/stats, the counts and the sum of the body
DashboardStats ==
    [totalPatients |-> Cardinality(patients),
     surgeryBookings |-> Len(bookings),
     totalRevenue |-> SumAmounts(transactions),
     pendingReports |->
         Cardinality({r \in treatment_plans : r.status # "Completed"})]

\* GET /api/dashboard/stats, the request: it reads only
GetDashboardStats ==
    /\ resp' = Response(200, "none")
    /\ UNCHANGED tables

StatsUploadSignature ==
    \E p \in KnownIds :
        /\ Cardinality(FilesOf("signatures", p)) = 0
        /\ Cardinality(storage) < MaxPayments
        /\ UploadSignature(p, TRUE)
        /\ UNCHANGED clients

StatsRecordTransaction ==
    \E p \in KnownIds, a \in {1, 2} :
        /\ Len(transactions) <= MaxTx
        /\ Cardinality(storage) < MaxPayments
        /\ RecordTransaction(p, <<a>>, TRUE, 100000 + Len(transactions))
        /\ UNCHANGED clients

StatsGet == GetDashboardStats /\ UNCHANGED clients

NextStats ==
    \/ ApiCreateNamedPatient
    \/ ApiDeletePatient
    \/ StatsUploadSignature
    \/ ApiCreateBooking
    \/ StatsRecordTransaction
    \/ StatsGet

SpecStats == Init /\ [][NextStats]_vars


\* ------------------------------------------- signature uploads: SpecSign
SignUploadSignature ==
    \E p \in KnownIds, hasFile \in BOOLEAN :
        /\ hasFile => Cardinality(FilesOf("signatures", p)) < MaxFiles
        /\ UploadSignature(p, hasFile)
        /\ UNCHANGED clients

NextSign ==
    \/ ApiCreateNamedPatient
    \/ ApiDeletePatient
    \/ SignUploadSignature

SpecSign == Init /\ [][NextSign]_vars


\* ------------------------------------------- the calendar page: SpecCalendar
\* The CalendarPage of one browser next to other clients of the API. The page
\* keeps the patient it was rendered for; picking a day runs the effect that
\* fetches the booked slots of that day.
\* TIME_SLOTS of the page, the first two of eight
TIME_SLOTS == {"09:00", "10:00"}

\* GET /api/slots?date=d
GetBookedSlots(d) ==
    LET rows == SelectSeq(bookings, LAMBDA b : b.date = d) IN
    [i \in 1..Len(rows) |-> rows[i].time_slot]

\* bookedSlots.includes(slot)
IsBooked(page, slot) ==
    \E i \in 1..Len(page.bookedSlots) : page.bookedSlots[i] = slot

\* mutant: an email service with real credentials, whose send can fail
SendBookingConfirmationWithKeys == {"ok", "throw"}

\* sendBookingConfirmation: SERVICE_ID is the placeholder, the send is mocked
SendBookingConfirmation == {"ok"}

\* the /calendar route renders the page for the selected patient; the route
\* is offered for a patient whose contract is signed
CalMount(p) ==
    /\ calendarPage' = [NoCalendarPage EXCEPT !.selectedPatient = p]
    /\ UNCHANGED <<tables, resp, inflight, contractPage, financialsPage,
                   planPage, appContent, search, patientContext,
                   localStorage>>

\* a day button: setSelectedDate, setSelectedSlot(null), then fetchSlots
CalSelectDate(d) ==
    /\ calendarPage.selectedPatient # 0
    /\ ~calendarPage.isBookingConfirmed
    /\ calendarPage' = [calendarPage EXCEPT !.selectedDate = d,
                                           !.selectedSlot = NULL,
                                           !.bookedSlots = GetBookedSlots(d),
                                           !.alert = FALSE]
    /\ UNCHANGED <<tables, resp, inflight, contractPage, financialsPage,
                   planPage, appContent, search, patientContext,
                   localStorage>>

\* a slot button, disabled while the slot is among bookedSlots
CalSelectSlot(slot) ==
    /\ calendarPage.selectedPatient # 0
    /\ ~calendarPage.isBookingConfirmed
    /\ calendarPage.selectedDate # NULL
    /\ ~IsBooked(calendarPage, slot)
    /\ calendarPage' = [calendarPage EXCEPT !.selectedSlot = slot,
                                           !.alert = FALSE]
    /\ UNCHANGED <<tables, resp, inflight, contractPage, financialsPage,
                   planPage, appContent, search, patientContext,
                   localStorage>>

\* handleConfirmBooking
CalConfirmBooking ==
    /\ calendarPage.selectedPatient # 0
    /\ ~calendarPage.isBookingConfirmed
    /\ calendarPage.selectedDate # NULL
    /\ calendarPage.selectedSlot # NULL
    /\ CreateBooking(calendarPage.selectedPatient, "Surgery",
                     calendarPage.selectedDate, calendarPage.selectedSlot)
    /\ \E mail \in SendBookingConfirmation :
         calendarPage' = [calendarPage EXCEPT
            !.isBookingConfirmed = (resp'.status = 201 /\ mail = "ok"),
            !.alert = ~(resp'.status = 201 /\ mail = "ok")]
    /\ UNCHANGED <<inflight, contractPage, financialsPage, planPage,
                   appContent, search, patientContext, localStorage>>

\* 'Modify or schedule another booking'
CalModify ==
    /\ calendarPage.isBookingConfirmed
    /\ calendarPage' = [calendarPage EXCEPT !.isBookingConfirmed = FALSE]
    /\ UNCHANGED <<tables, resp, inflight, contractPage, financialsPage,
                   planPage, appContent, search, patientContext,
                   localStorage>>

\* the page may add one booking more than the other clients
CalConfirm == Len(bookings) <= MaxBookings /\ CalConfirmBooking

\* another client books a slot of the page's list
CalOtherBooking ==
    \E p \in KnownIds, d \in Dates, ts \in TIME_SLOTS :
        /\ Len(bookings) < MaxBookings
        /\ CreateBooking(p, "Surgery", d, ts)
        /\ UNCHANGED clients

NextCalendar ==
    \/ ApiCreateNamedPatient
    \/ ApiDeletePatient
    \/ ApiUploadSignature
    \/ CalOtherBooking
    \/ \E p \in KnownIds : HasContract(p) /\ CalMount(p)
    \/ \E d \in Dates : CalSelectDate(d)
    \/ \E slot \in TIME_SLOTS : CalSelectSlot(slot)
    \/ CalConfirm
    \/ CalModify

SpecCalendar == Init /\ [][NextCalendar]_vars


\* ------------------------------------------------ file uploads: SpecFiles
\* The two multipart endpoints, with and without their file part, next to
\* patient creation and deletion.
FilesRecordTransaction ==
    \E p \in KnownIds, a \in {<<>>, <<1>>}, hasFile \in BOOLEAN, r \in Receipts :
        /\ hasFile => (Cardinality(storage) < MaxFiles /\ Len(transactions) < MaxTx)
        /\ RecordTransaction(p, a, hasFile, r)
        /\ UNCHANGED clients

NextFiles ==
    \/ ApiCreateNamedPatient
    \/ ApiDeletePatient
    \/ ApiUploadSignature
    \/ FilesRecordTransaction

SpecFiles == Init /\ [][NextFiles]_vars


\* ------------------------------------------- patient records: SpecPatients
\* Patient create, update and delete requests in any order.
\* emails and first names a PUT body may carry
UpdateEmails == Emails \cup {"c@x.uk", NULL}
UpdateFirstNames == FirstNames \cup {"Bea", NULL}

PatientsUpdatePatient ==
    \E p \in KnownIds, fn \in UpdateFirstNames, em \in UpdateEmails :
        UpdatePatient(p, fn, "Lee", em) /\ UNCHANGED clients

NextPatients ==
    \/ ApiCreatePatient
    \/ PatientsUpdatePatient
    \/ ApiDeletePatient

SpecPatients == Init /\ [][NextPatients]_vars


\* --------------------------------------------- writes by patient: SpecFrame
\* Every write endpoint, each request addressed to one patient id.
\* all that the database holds for patient q
AllRowsOf(q) ==
    [patients |-> {r \in patients : r.id = q},
     medical_intakes |-> {r \in medical_intakes : r.patient_id = q},
     contracts |-> {r \in contracts : r.patient_id = q},
     bookings |-> OfPatient(bookings, q),
     treatment_plans |-> {r \in treatment_plans : r.patient_id = q},
     transactions |-> OfPatient(transactions, q)]

\* the rows of the five dependent tables
DependentRows ==
    Cardinality(medical_intakes) + Cardinality(contracts) + Len(bookings)
    + Cardinality(treatment_plans) + Len(transactions)

\* a PUT that names an email only
FrameUpdatePatient ==
    \E p \in KnownIds, em \in Emails :
        UpdatePatient(p, NULL, NULL, em) /\ UNCHANGED clients

\* a write to a dependent table, while these hold fewer than MaxFiles rows
\* and the buckets fewer than MaxFiles objects
FrameWrite ==
    \E p \in KnownIds :
        /\ DependentRows < MaxFiles
        /\ \/ SaveAssessment(p, "d1")
           \/ Cardinality(storage) < MaxFiles /\ UploadSignature(p, TRUE)
           \/ CreateBooking(p, "Hair Transplant", "2026-01-05", "09:00 AM")
           \/ SaveTreatmentPlan(p, PlanBody(3, 1, 2))
           \/ /\ Cardinality(storage) < MaxFiles
              /\ RecordTransaction(p, <<1>>, TRUE, 100000 + Len(transactions))
        /\ UNCHANGED clients

NextFrame ==
    \/ ApiCreateNamedPatient
    \/ FrameUpdatePatient
    \/ ApiDeletePatient
    \/ FrameWrite

SpecFrame == Init /\ [][NextFrame]_vars


\* ------------------------------------- one Financials page: SpecOneClient
\* A single browser records payments one after another: every request is
\* answered before the next is made, and no other client writes.
\* amounts the number input lets through (step 1, no min)
PaymentInputs == {-1, 1, 2}

OneRecordPayment ==
    \E a \in PaymentInputs, isCashPayment \in BOOLEAN, receipt \in ReceiptDraws :
        /\ ~isCashPayment => Cardinality(storage) < MaxPayments
        /\ FinRecordPayment("b1", a, isCashPayment, receipt)

NextOneClient ==
    \/ PayCreatePatient
    \/ PaySaveTreatmentPlan
    \/ \E p \in KnownIds : FinFetchBillingData("b1", p)
    \/ FinOpenPaymentModal("b1")
    \/ OneRecordPayment

SpecOneClient == Init /\ [][NextOneClient]_vars


\* ------------------------------------ the selected patient: SpecContext
\* PatientProvider keeps selectedPatient in memory and under the key
\* 'selectedPatient' of localStorage, which the tabs of a browser share.
\* A value is <<>> for null or absent and <<v>> otherwise.
\* the keys of the object the Patients page selects, in insertion order
PatientKeys == <<"id", "first_name", "last_name", "email">>

\* mutant: a replacer that keeps the id only
JsonStringifyIdOnly(o) == <<<<"id", o.id>>>>

\* JSON.stringify of an object: its keys and values, in order
JsonStringify(o) ==
    [i \in 1..Len(PatientKeys) |-> <<PatientKeys[i], o[PatientKeys[i]]>>]

\* JSON.parse of such a text
JsonParse(text) ==
    [k \in {text[i][1] : i \in 1..Len(text)} |->
        text[CHOOSE i \in 1..Len(text) : text[i][1] = k][2]]

\* the initial state of useState: the saved entry parsed, or null
SavedSelection ==
    IF localStorage = <<>> THEN <<>> ELSE <<JsonParse(localStorage[1])>>

\* handleSetSelectedPatient(patient)
CtxSetSelectedPatient(t, patient) ==
    /\ patientContext' = [patientContext EXCEPT ![t] = patient]
    /\ localStorage' = IF patient # <<>>
                       THEN <<JsonStringify(patient[1])>>
                       ELSE <<>>
    /\ UNCHANGED <<tables, resp, inflight, contractPage, financialsPage,
                   planPage, appContent, search, calendarPage>>

\* clearPatient()
CtxClearPatient(t) ==
    /\ patientContext' = [patientContext EXCEPT ![t] = <<>>]
    /\ localStorage' = <<>>
    /\ UNCHANGED <<tables, resp, inflight, contractPage, financialsPage,
                   planPage, appContent, search, calendarPage>>

\* the tab is loaded again: the provider is initialised from localStorage
CtxMount(t) ==
    /\ patientContext' = [patientContext EXCEPT ![t] = SavedSelection]
    /\ UNCHANGED <<tables, resp, inflight, contractPage, financialsPage,
                   planPage, appContent, search, calendarPage, localStorage>>

\* a row of the Patients page is clicked, or null is passed
CtxSelect ==
    \E t \in Tabs, patient \in {<<>>} \cup {<<r>> : r \in patients} :
        CtxSetSelectedPatient(t, patient)

NextContext ==
    \/ ApiCreateNamedPatient
    \/ ApiDeletePatient
    \/ CtxSelect
    \/ \E t \in Tabs : CtxClearPatient(t)
    \/ \E t \in Tabs : CtxMount(t)

SpecContext == Init /\ [][NextContext]_vars


\* ------------------------------------------------------------------ claims
RowsReference(p) ==
    \/ \E r \in medical_intakes : r.patient_id = p
    \/ \E r \in contracts : r.patient_id = p
    \/ \E i \in 1..Len(bookings) : bookings[i].patient_id = p
    \/ \E r \in treatment_plans : r.patient_id = p
    \/ \E i \in 1..Len(transactions) : transactions[i].patient_id = p

EmailTaken(em) == \E r \in patients : r.email = em

\* the stored transactions of a patient (row numbers) and the sum of amounts
RowsOfPatient(p) == {i \in 1..Len(transactions) : transactions[i].patient_id = p}

RECURSIVE SumRows(_)
SumRows(rows) ==
    IF rows = {} THEN 0
    ELSE LET i == CHOOSE i \in rows : TRUE
         IN transactions[i].amount + SumRows(rows \ {i})

\* C1: in every state reachable by the API operations, every booking row
\* belongs to a patient that has a contract row.
C1_BookingImpliesContract ==
    \A i \in 1..Len(bookings) : HasContract(bookings[i].patient_id)

\* a booking is stored while another live patient has no contract
C1_Witness ==
    /\ Len(bookings) > 0
    /\ \E r \in patients : ~HasContract(r.id)

\* C2: POST /api/bookings for a patient without a contract row responds 403
\* 'Patient must sign a contract before booking.' and changes no table.
C2_BookingWithoutContractRejected ==
    [][\A p \in PatientIds, st \in ServiceTypes \cup {NULL}, d \in Dates,
          ts \in TimeSlots :
          (~HasContract(p) /\ CreateBooking(p, st, d, ts)) =>
              /\ resp' = Response(403, "Patient must sign a contract before booking.")
              /\ UNCHANGED tables]_vars

\* a live patient without a contract has just been refused a booking
C2_Witness ==
    /\ resp = Response(403, "Patient must sign a contract before booking.")
    /\ \E r \in patients : ~HasContract(r.id)

\* C3: with the contract lookup and the booking insert of POST /api/bookings
\* as separate steps, under every interleaving of concurrent booking,
\* signature-upload and patient-delete requests no booking row exists for a
\* patient without a contract row.
C3_NoBookingWithoutContractUnderRaces ==
    \A i \in 1..Len(bookings) :
        \E c \in contracts : c.patient_id = bookings[i].patient_id

\* a booking request saw the contract, the patient was deleted before its
\* insert, and the insert has been refused
C3_Witness ==
    \E c \in Connections :
        /\ inflight[c].pc = "idle"
        /\ inflight[c].contract
        /\ inflight[c].status = 400
        /\ ~HasContract(inflight[c].patient_id)

\* C4: once a signature upload has succeeded for a patient, GET
\* /api/contract/:patientId reports signed = true in every later state in
\* which the patient still exists: no step, 'Clear & Resign' included, takes
\* the contract of a patient who remains.
C4_SignedIsIrreversible ==
    [][\A p \in PatientIds :
          (ContractSigned(p) /\ PatientExists(p)') => ContractSigned(p)']_vars

\* the page was cleared for a patient whose contract is stored: it shows the
\* empty canvas while the server still reports signed
C4_Witness ==
    /\ contractPage.patient # 0
    /\ ~contractPage.isSigned
    /\ contractPage.existingSignature = NoFile
    /\ PatientExists(contractPage.patient)
    /\ ContractSigned(contractPage.patient)

\* C7: for a patient that has a treatment plan, GET /api/financials/:patientId
\* returns amount_paid equal to the sum of the amounts of all transactions
\* recorded for that patient, and a transactions list of exactly those rows.
C7_AmountPaidIsSumOfTransactions ==
    \A p \in PatientIds :
        HasPlan(p) =>
            LET f == Financials(p)
                rows == RowsOfPatient(p)
            IN /\ f.amount_paid = SumRows(rows)
               /\ Len(f.transactions) = Cardinality(rows)
               /\ \A i \in rows :
                    \E j \in 1..Len(f.transactions) : f.transactions[j] = transactions[i]

\* a patient with a plan has paid twice while another patient has paid too
C7_Witness ==
    \E p \in PatientIds, q \in PatientIds :
        /\ p # q
        /\ HasPlan(p)
        /\ Cardinality(RowsOfPatient(p)) >= 2
        /\ Cardinality(RowsOfPatient(q)) >= 1

\* C8: GET /api/financials/:patientId returns status 'Payment Done' exactly
\* when the sum of the patient's transaction amounts is >= the plan's
\* total_to_pay and 'Payment Pending' otherwise; no payment status is stored
\* (a stored plan's status stays 'Active').
C8_StatusDerivedFromSum ==
    /\ \A p \in PatientIds :
         HasPlan(p) =>
             Financials(p).status =
                 IF SumRows(RowsOfPatient(p)) >= PlanOf(p).total_to_pay
                 THEN "Payment Done" ELSE "Payment Pending"
    /\ \A r \in treatment_plans : r.status = "Active"

\* one patient has paid exactly the plan's total and another has paid less
C8_Witness ==
    \E p \in PatientIds, q \in PatientIds :
        /\ HasPlan(p) /\ HasPlan(q)
        /\ SumRows(RowsOfPatient(p)) = PlanOf(p).total_to_pay
        /\ SumRows(RowsOfPatient(q)) < PlanOf(q).total_to_pay
        /\ SumRows(RowsOfPatient(q)) > 0

\* C9: two record-payment operations for the same patient, each started from
\* the same stale running total, both succeed: the server accepts every
\* payment that carries its proof, whatever the sum already stored, so the
\* sum can exceed the plan total (C9_Witness).
C9_PaymentAcceptedWhateverTheSum ==
    [][\A b \in Browsers, a \in {1, 2}, receipt \in ReceiptDraws :
          (/\ FinRecordPayment(b, a, FALSE, receipt)
           /\ PatientExists(financialsPage[b].patient)
           /\ \A i \in 1..Len(transactions) :
                transactions[i].receipt_number # receipt)
          => /\ resp'.status = 201
             /\ transactions' = Append(transactions,
                  NewTransaction(financialsPage[b].patient, a, receipt))
             /\ financialsPage'[b].amount_paid = financialsPage[b].amount_paid + a]_vars

\* both browsers fetched the same total, each paid 2 of the 3 due and shows
\* amount_paid 2, and the stored sum 4 exceeds the plan total
C9_Witness ==
    \E p \in PatientIds :
        /\ HasPlan(p)
        /\ \A b \in Browsers :
             /\ financialsPage[b].patient = p
             /\ financialsPage[b].loaded
             /\ financialsPage[b].amount_paid = 2
             /\ Len(financialsPage[b].transactions) = 1
        /\ AmountPaid(p) = 4
        /\ AmountPaid(p) > PlanOf(p).total_to_pay

\* C10: the total-to-pay computed for a treatment plan equals
\* max(0, base cost - discount): it is 0 for every discount greater than the
\* base cost and never negative, on the page and in the plan it saves.
C10_TotalToPayFlooredAtZero ==
    /\ LET t == TotalToPay(planPage.cost, planPage.discount) IN
         /\ t >= 0
         /\ planPage.discount > planPage.cost => t = 0
         /\ planPage.discount <= planPage.cost => t = planPage.cost - planPage.discount
    /\ \A r \in treatment_plans :
         /\ r.total_to_pay >= 0
         /\ r.discount > r.base_cost => r.total_to_pay = 0
         /\ r.discount <= r.base_cost => r.total_to_pay = r.base_cost - r.discount

\* a service is chosen and the discount typed exceeds the cost
C10_Witness ==
    /\ planPage.selectedServiceId # ""
    /\ planPage.discount > planPage.cost
    /\ planPage.cost > 0

\* C5: once DELETE /api/patients/:id has succeeded for an id, no
\* medical-intake, contract, booking, treatment-plan or transaction row
\* references that id.
C5_NoRowsOfDeletedPatient ==
    \A p \in KnownIds : ~PatientExists(p) => ~RowsReference(p)

\* a patient whose signature and proof were uploaded has just been deleted
C5_Witness ==
    /\ resp = Response(200, "Patient deleted successfully")
    /\ \E p \in KnownIds :
         /\ ~PatientExists(p)
         /\ FilesOf("signatures", p) # {}
         /\ FilesOf("proofs", p) # {}

C11_StoredTotalIsComputed ==
    \A r \in treatment_plans :
        r.total_to_pay = TotalToPay(r.base_cost, r.discount)

\* C11 amended: a plan saved for an existing patient is the patient's only
\* plan row and carries the base_cost, discount and total_to_pay of the
\* request body, unchanged; the server computes nothing.
C11_StoredTotalIsRequestTotal ==
    [][\A p \in PatientIds, body \in PlanBodies :
          (SaveTreatmentPlan(p, body) /\ PatientExists(p))
          => /\ resp'.status = 201
             /\ {r \in treatment_plans' : r.patient_id = p} =
                  {[patient_id |-> p, service_id |-> body.service_id,
                    service_name |-> body.service_name,
                    base_cost |-> body.base_cost, discount |-> body.discount,
                    total_to_pay |-> body.total_to_pay, status |-> "Active"]}]_vars

\* a plan with a negative total that is not max(0, base_cost - discount) is
\* stored and was answered 201
C11_Witness ==
    /\ resp.status = 201
    /\ \E r \in treatment_plans :
         /\ r.total_to_pay < 0
         /\ r.total_to_pay # TotalToPay(r.base_cost, r.discount)
         /\ PatientExists(r.patient_id)


\* C12: after any sequence of signature uploads each patient has at most one
\* contract row; an upload for a patient who already has a contract is
\* answered 201 and leaves that single row with the new signature_url.
C12_OneContractPerPatient ==
    [][/\ \A p \in PatientIds :
            Cardinality({c \in contracts' : c.patient_id = p}) <= 1
       /\ \A p \in PatientIds :
            (UploadSignature(p, TRUE) /\ ContractSigned(p))
            => /\ resp'.status = 201
               /\ {c \in contracts' : c.patient_id = p} =
                    {[patient_id |-> p,
                      signature_url |-> FileName("signatures", p)]}
               /\ FileName("signatures", p) \notin
                    {c.signature_url : c \in contracts}]_vars

\* a second upload succeeded: the patient's one contract row points at the
\* second file
C12_Witness ==
    /\ resp.status = 201
    /\ \E c \in contracts :
         /\ c.signature_url.n = 1
         /\ Cardinality({x \in contracts : x.patient_id = c.patient_id}) = 1
         /\ Cardinality(FilesOf("signatures", c.patient_id)) = 2


\* C13: a successful POST /api/assessment with data d for patient p makes
\* GET /api/assessment/p return the row with data d, so after several saves
\* it returns the last one; no other request changes what GET returns for p
\* except the delete of p, and for a patient with no saved assessment GET
\* returns null.
C13_AssessmentRoundTrip ==
    [][\A p \in PatientIds :
          /\ \A d \in Answers :
               (SaveAssessment(p, d) /\ PatientExists(p))
               => /\ resp'.status = 201
                  /\ GetAssessment(p)' = <<[patient_id |-> p, data |-> d]>>
          /\ (\A d \in Answers : ~SaveAssessment(p, d))
               => \/ GetAssessment(p)' = GetAssessment(p)
                  \/ ~PatientExists(p)' /\ GetAssessment(p)' = <<>>
          /\ p \notin KnownIds => GetAssessment(p) = <<>>]_vars

\* one patient's assessment reads d2, another patient exists and has none
C13_Witness ==
    \E p, q \in PatientIds :
        /\ PatientExists(p) /\ PatientExists(q)
        /\ GetAssessment(p) = <<[patient_id |-> p, data |-> "d2"]>>
        /\ GetAssessment(q) = <<>>
        /\ resp.status = 201


\* C14: in every handler a failure returned by a database call is answered
\* with HTTP 400 carrying the underlying error message, the only exception
\* being the duplicate email of patient creation (409).
C14_DatabaseFailureIs400 ==
    [][/\ \A fn \in FirstNames \cup {NULL}, em \in Emails :
            (CreatePatient(fn, "Lee", em) /\ PatientInsertError(fn, "Lee", em) # "none")
            => resp' = IF PatientInsertError(fn, "Lee", em) = "23505"
                       THEN Response(409, "DUPLICATE_EMAIL")
                       ELSE Response(400, PatientInsertError(fn, "Lee", em))
       /\ \A p \in RequestIds :
            /\ (CheckContractStatus(p) /\ LookupError(p) # "none")
                 => resp' = Response(400, LookupError(p))
            /\ (GetFinancials(p) /\ LookupError(p) # "none")
                 => resp' = Response(400, LookupError(p))
            /\ \A st \in ServiceTypes \cup {NULL}, d \in Dates, ts \in TimeSlots :
                 /\ (CreateBooking(p, st, d, ts) /\ LookupError(p) # "none")
                      => resp' = Response(400, LookupError(p))
                 /\ (/\ CreateBooking(p, st, d, ts)
                     /\ HasContract(p)
                     /\ BookingInsertError(p, st, d, ts) # "none")
                      => resp' = Response(400, BookingInsertError(p, st, d, ts))]_vars


\* C15: GET /api/financials/:patientId for a patient with no treatment plan
\* is answered 404 'No treatment plan found', whatever transactions are
\* recorded for that patient, and changes no stored data.
C15_NoPlanIs404 ==
    [][\A p \in PatientIds :
          (GetFinancials(p) /\ PatientExists(p) /\ ~HasPlan(p))
          => /\ resp' = Response(404, "No treatment plan found")
             /\ UNCHANGED tables]_vars

\* the 404 was given for a patient who has paid but has no plan
C15_Witness ==
    /\ resp = Response(404, "No treatment plan found")
    /\ \E p \in PatientIds :
         /\ PatientExists(p)
         /\ ~HasPlan(p)
         /\ RowsOfPatient(p) # {}


\* C16: whenever the calendar is accessible in the UI (isContractSigned is
\* true), a patient is selected and that patient has a contract row on the
\* server; in every state, also after switching or clearing the selection
\* and while contract-status responses are in flight or arrive out of order.
C16_CalendarAccessibleImpliesContract ==
    appContent.isContractSigned =>
        /\ appContent.selectedPatient # 0
        /\ ContractSigned(appContent.selectedPatient)


\* C17: for every search term and every set of patients, the search result
\* holds exactly the patients for which the term is a substring of a name,
\* email or phone field, case-insensitively for name and email; an empty
\* term returns all patients.
C17_SearchIsSubstringFilter ==
    search.by # "none" =>
        search.ids =
            {r.id : r \in {x \in search.rows :
                \/ Includes(LowerText(x.first_name), LowerText(search.term))
                \/ Includes(LowerText(x.last_name), LowerText(search.term))
                \/ Includes(LowerText(x.email), LowerText(search.term))
                \/ Includes(x.phone, search.term)}}


\* C18: in every database state GET /api/dashboard/stats reports
\* totalPatients = the number of patient rows, surgeryBookings = the number
\* of booking rows and totalRevenue = the sum of the amounts of all
\* transactions.
C18_StatsCountRowsAndSumAmounts ==
    /\ DashboardStats.totalPatients =
         Cardinality({p \in PatientIds : PatientExists(p)})
    /\ DashboardStats.surgeryBookings =
         Cardinality({i \in PatientIds \X (1..Len(bookings)) :
                        bookings[i[2]].patient_id = i[1]})
    /\ DashboardStats.totalRevenue = SumRows(DOMAIN transactions)

\* the stats were asked for with two patients, a booking and payments of
\* both patients stored
C18_Witness ==
    /\ resp = Response(200, "none")
    /\ Cardinality(patients) = 2
    /\ Len(bookings) >= 1
    /\ Len(transactions) >= 2
    /\ \A p \in PatientIds : RowsOfPatient(p) # {}


C20_CashPaymentIsRecorded ==
    [][\A b \in Browsers, a \in {1, 2}, receipt \in ReceiptDraws :
          (/\ FinRecordPayment(b, a, TRUE, receipt)
           /\ PatientExists(financialsPage[b].patient)
           /\ \A i \in 1..Len(transactions) :
                transactions[i].receipt_number # receipt)
          => /\ Len(transactions') = Len(transactions) + 1
             /\ transactions'[Len(transactions')].patient_id =
                  financialsPage[b].patient
             /\ transactions'[Len(transactions')].amount = a]_vars



\* C21: no two booking rows share the same date and time_slot: once a slot is
\* booked for a date, a further booking request for that date and slot adds no
\* second row, from another client or from the same calendar page.
C21_NoTwoBookingsShareSlot ==
    \A i, j \in 1..Len(bookings) :
        (bookings[i].date = bookings[j].date
         /\ bookings[i].time_slot = bookings[j].time_slot) => i = j


C23_EmailsStayUnique ==
    [][/\ \A r1, r2 \in patients' : r1.email = r2.email => r1 = r2
       /\ \A p \in PatientIds, fn \in UpdateFirstNames, ln \in LastNames,
             em \in UpdateEmails :
            (/\ UpdatePatient(p, fn, ln, em)
             /\ PatientExists(p)
             /\ \E r \in patients : r.id # p /\ r.email = em)
            => (resp'.status = 400 /\ UNCHANGED patients)]_vars

\* two patients are stored and an update to the other's email was refused
C23_Witness ==
    /\ Cardinality(patients) = 2
    /\ resp = Response(400, "23505")


\* C24: a write request addressed to patient p (update or delete patient,
\* save assessment, upload signature, create booking, save treatment plan,
\* record transaction) leaves every row of every other patient unchanged.
C24_OtherPatientsUnchanged ==
    [][\A p \in PatientIds :
          (\/ \E fn \in UpdateFirstNames, ln \in LastNames \cup {NULL},
                 em \in UpdateEmails : UpdatePatient(p, fn, ln, em)
           \/ DeletePatient(p)
           \/ \E d \in AssessmentData : SaveAssessment(p, d)
           \/ \E hasFile \in BOOLEAN : UploadSignature(p, hasFile)
           \/ \E st \in ServiceTypes \cup {NULL}, dt \in Dates, ts \in TimeSlots :
                 CreateBooking(p, st, dt, ts)
           \/ SaveTreatmentPlan(p, PlanBody(3, 1, 2))
           \/ \E r \in TxRequests({1}) :
                 RecordTransaction(p, r.amount, r.hasFile, r.receipt))
          => \A q \in PatientIds \ {p} : AllRowsOf(q)' = AllRowsOf(q)]_vars

\* patient 1 was deleted while patient 2 keeps its contract and its booking
C24_Witness ==
    /\ nextId > 2
    /\ ~PatientExists(1)
    /\ PatientExists(2)
    /\ AllRowsOf(2).contracts # {}
    /\ Len(AllRowsOf(2).bookings) = 1
    /\ resp.status = 200

\* C25: for a single client recording payments one after another, after each
\* successful payment the billing record the Financials page keeps
\* (amount_paid, status, transactions) equals what GET /api/financials of
\* that patient returns in the same state.
C25_LocalRecordEqualsFinancials ==
    [][\A a \in PaymentInputs, isCashPayment \in BOOLEAN, receipt \in ReceiptDraws :
          (FinRecordPayment("b1", a, isCashPayment, receipt) /\ resp'.status = 201)
          => LET page == financialsPage'["b1"]
                 body == Financials(financialsPage["b1"].patient)'
             IN /\ page.amount_paid = body.amount_paid
                /\ page.status = body.status
                /\ page.transactions = body.transactions
                /\ page.total_amount = body.total_amount]_vars

\* the page has recorded two payments and shows 'Payment Done'
C25_Witness ==
    /\ financialsPage["b1"].loaded
    /\ Len(financialsPage["b1"].transactions) = 2
    /\ financialsPage["b1"].status = "Payment Done"
    /\ resp.status = 201


\* C26: payments made through the Record Payment form by a single client,
\* one after another, keep amount_paid <= total_amount, on the page and in the
\* patient's financial summary, and a payment is submitted only while the
\* page's status is 'Payment Pending'.
C26_FormKeepsPaidWithinTotal ==
    [][/\ financialsPage'["b1"].loaded =>
            /\ financialsPage'["b1"].amount_paid <= financialsPage'["b1"].total_amount
            /\ Financials(financialsPage["b1"].patient)'.amount_paid
                 <= Financials(financialsPage["b1"].patient)'.total_amount
       /\ \A a \in PaymentInputs, isCashPayment \in BOOLEAN, receipt \in ReceiptDraws :
            FinRecordPayment("b1", a, isCashPayment, receipt)
            => financialsPage["b1"].status = "Payment Pending"]_vars

\* the balance was paid in full through the form and the page shows it
C26_Witness ==
    /\ financialsPage["b1"].loaded
    /\ financialsPage["b1"].amount_paid = financialsPage["b1"].total_amount
    /\ financialsPage["b1"].status = "Payment Done"
    /\ ~financialsPage["b1"].isPaymentModalOpen
    /\ AmountPaid(financialsPage["b1"].patient) = 3


\* C28: no two stored transactions share a receipt number, and a
\* record-payment request whose generated receipt number is that of a stored
\* transaction is answered 400 and adds no transaction row.
C28_ReceiptNumbersUnique ==
    [][/\ \A i, j \in 1..Len(transactions') :
            transactions'[i].receipt_number = transactions'[j].receipt_number
            => i = j
       /\ \A p \in PatientIds, a \in PaymentInputs, receipt \in ReceiptDraws :
            (/\ RecordTransaction(p, <<a>>, TRUE, receipt)
             /\ \E i \in 1..Len(transactions) :
                  transactions[i].receipt_number = receipt)
            => (resp'.status = 400 /\ transactions' = transactions)]_vars

\* a payment was refused for its receipt number while one is stored
C28_Witness ==
    /\ resp = Response(400, "23505")
    /\ Len(transactions) >= 1
    /\ Cardinality(storage) > Len(transactions)


\* C29: after every setSelectedPatient or clearPatient call of a
\* PatientProvider the localStorage entry 'selectedPatient' is the JSON of
\* that provider's selection, or absent when the selection is null, and
\* initialising a provider from it yields exactly that selection.
C29_StorageAgreesWithSelection ==
    [][\A t \in Tabs :
          (\/ \E patient \in {<<>>} \cup {<<r>> : r \in patients} :
                 CtxSetSelectedPatient(t, patient)
           \/ CtxClearPatient(t))
          => /\ (patientContext'[t] = <<>>) <=> (localStorage' = <<>>)
             /\ patientContext'[t] # <<>> =>
                  localStorage'[1] = JsonStringify(patientContext'[t][1])
             /\ SavedSelection' = patientContext'[t]]_vars

\* a tab has selected a patient after the other tab selected another one
C29_Witness ==
    /\ patientContext["t1"] # <<>>
    /\ patientContext["t2"] # <<>>
    /\ patientContext["t1"] # patientContext["t2"]
    /\ localStorage = <<JsonStringify(patientContext["t2"][1])>>

====
